---- MODULE Spec2Model ----
(***************************************************************************)
(* BluePath front end: the Index page with its RouteControls,              *)
(* TelemetryPanel, AuditLog and MapView components, as a state machine.    *)
(*                                                                         *)
(* Numbers.  Coordinates are fixed-point integers in units of 1/Scale      *)
(* degree (the code uses IEEE doubles); JavaScript's NaN is the value NaN. *)
(* Text fields are sequences of one-character strings, so that parseFloat  *)
(* is modelled by what it does to the text.                                *)
(***************************************************************************)
EXTENDS Integers, Sequences, FiniteSets, TLC

\* ------------------------------------------------------------------ bounds
\* Generate Route clicks explored.
MaxRoutes == 2
\* Telemetry samples explored.
MaxTicks == 2
\* Start Simulation clicks explored (each creates a fresh interval timer).
MaxTimers == 2
\* Edits of the form fields (text inputs and sliders) explored.
MaxEdits == 3
\* Map layers (polylines and markers) created in a session of the map view.
MaxLayers == 11
\* Wall-clock readings of new Date() are drawn from 1..MaxClock.
MaxClock == 2
\* Telemetry samples emitted in a long simulation run: more than the 51 the
\* page retains.
MaxArrivals == 53

\* ------------------------------------------------------------ number model
\* Fixed-point unit: 1 degree = Scale units.
Scale == 10000
\* JavaScript NaN, the result of parseFloat on text with no leading number.
NaN == 999999999
\* generateCurvedPath(start, dest, 20): the number of segments of a route.
NumPoints == 20
\* slice(-50): the samples kept before a new one is appended.
KeepSamples == 50

IsNaN(x) == x = NaN

Digits == {"0", "1", "2", "3", "4", "5", "6", "7", "8", "9"}

DigitVal(c) ==
    CASE c = "0" -> 0 [] c = "1" -> 1 [] c = "2" -> 2 [] c = "3" -> 3
      [] c = "4" -> 4 [] c = "5" -> 5 [] c = "6" -> 6 [] c = "7" -> 7
      [] c = "8" -> 8 [] c = "9" -> 9

\* The number of consecutive digits of s starting at position i.
RECURSIVE DigitRun(_, _)
DigitRun(s, i) ==
    IF i <= Len(s) /\ s[i] \in Digits THEN 1 + DigitRun(s, i + 1) ELSE 0

\* The value of the k digits of s starting at position i.
RECURSIVE DigitsValue(_, _, _)
DigitsValue(s, i, k) ==
    IF k = 0 THEN 0
    ELSE 10 * DigitsValue(s, i, k - 1) + DigitVal(s[i + k - 1])

\* 10^k.
RECURSIVE Pow10(_)
Pow10(k) == IF k = 0 THEN 1 ELSE 10 * Pow10(k - 1)

\* JavaScript parseFloat on the characters the model uses: an optional sign,
\* digits, an optional "." and digits; the longest such prefix is the number and
\* the rest of the text is ignored; NaN when the prefix holds no digit.  The
\* fraction is kept to four digits (the fixed-point unit).
parseFloat(s) ==
    LET signLen == IF Len(s) > 0 /\ s[1] \in {"-", "+"} THEN 1 ELSE 0
        negative == signLen = 1 /\ s[1] = "-"
        intLen == DigitRun(s, signLen + 1)
        dotAt == signLen + intLen + 1
        hasDot == dotAt <= Len(s) /\ s[dotAt] = "."
        fracLen == IF hasDot THEN DigitRun(s, dotAt + 1) ELSE 0
        kept == IF fracLen > 4 THEN 4 ELSE fracLen
        magnitude == DigitsValue(s, signLen + 1, intLen) * Scale
                     + DigitsValue(s, dotAt + 1, kept) * Pow10(4 - kept)
    IN  IF intLen = 0 /\ fracLen = 0 THEN NaN
        ELSE IF negative THEN 0 - magnitude ELSE magnitude

\* ------------------------------------------------------------- form values
\* Texts typed into the four coordinate inputs.  The first of each set is the
\* component's initial value.
DefaultStartLat == <<"1", "3", ".", "0", "8", "2", "7">>
DefaultStartLon == <<"8", "0", ".", "2", "7", "0", "7">>
DefaultDestLat == <<"1", ".", "3", "5", "2", "1">>
DefaultDestLon == <<"1", "0", "3", ".", "8", "1", "9", "8">>

StartLatTexts == {DefaultStartLat, <<"9", "5">>}
StartLonTexts == {DefaultStartLon, <<"a", "b", "c">>}
DestLatTexts == {DefaultDestLat, DefaultStartLat}
DestLonTexts == {DefaultDestLon, DefaultStartLon}

\* Slider positions (each slider ranges over 0..100 in steps of 1).
FuelValues == {50, 0}
TimeValues == {30, 0}
SafetyValues == {20, 0}

\* ------------------------------------------------------------ route maths
\* Math.sin(k * Math.PI / 20) and Math.cos(k * Math.PI / 20) for k = 0..20, in
\* units of 1/Scale (entry k + 1 of each table).
SinTable ==
    <<0, 1564, 3090, 4540, 5878, 7071, 8090, 8910, 9511, 9877, 10000,
      9877, 9511, 8910, 8090, 7071, 5878, 4540, 3090, 1564, 0>>

CosTable ==
    <<10000, 9877, 9511, 8910, 8090, 7071, 5878, 4540, 3090, 1564, 0,
      -1564, -3090, -4540, -5878, -7071, -8090, -8910, -9511, -9877, -10000>>

\* Math.sin(t * Math.PI) and Math.cos(t * Math.PI) at t = i / points, for the
\* values of points that divide 20.
SinPi(i, points) == SinTable[i * (20 \div points) + 1]
CosPi(i, points) == CosTable[i * (20 \div points) + 1]

\* One waypoint of generateCurvedPath: the straight line from start to dest at
\* t = i / points, plus 2 * sin(t * pi) degrees of latitude and 1 * cos(t * pi)
\* degrees of longitude.  Arithmetic on NaN gives NaN.
CurvePoint(start, dest, i, points) ==
    LET lat == IF IsNaN(start[1]) \/ IsNaN(dest[1]) THEN NaN
               ELSE start[1] + ((dest[1] - start[1]) * i) \div points
                    + SinPi(i, points) * 2
        lon == IF IsNaN(start[2]) \/ IsNaN(dest[2]) THEN NaN
               ELSE start[2] + ((dest[2] - start[2]) * i) \div points
                    + CosPi(i, points) * 1
    IN  <<lat, lon>>

\* A generateCurvedPath whose loop runs while i < points.
generateCurvedPathOpenEnded(start, dest, points) ==
    [k \in 1..points |-> CurvePoint(start, dest, k - 1, points)]

\* generateCurvedPath(start, dest, points): points + 1 waypoints, i = 0..points.
generateCurvedPath(start, dest, points) ==
    [k \in 1..(points + 1) |-> CurvePoint(start, dest, k - 1, points)]

\* The haversine distance R * c of calculateDistance (R = 3440 nm), in
\* hundredths of a nautical mile, for the coordinates the form texts parse to:
\* the values the code's formula gives in IEEE doubles.
HaversineCentiNm(start, dest) ==
    CASE start = <<130827, 802707>> /\ dest = <<13521, 1038198>> -> 156711
      [] start = <<130827, 802707>> /\ dest = <<13521, 802707>> -> 70430
      [] start = <<130827, 802707>> /\ dest = <<130827, 1038198>> -> 137667
      [] start = <<130827, 802707>> /\ dest = <<130827, 802707>> -> 0
      [] start = <<950000, 802707>> /\ dest = <<13521, 1038198>> -> 559755
      [] start = <<950000, 802707>> /\ dest = <<13521, 802707>> -> 562256
      [] start = <<950000, 802707>> /\ dest = <<130827, 1038198>> -> 489368
      [] start = <<950000, 802707>> /\ dest = <<130827, 802707>> -> 491826

\* calculateDistance(start, dest), in hundredths of a nautical mile; NaN when a
\* coordinate is NaN.
calculateDistance(start, dest) ==
    IF \E c \in {start[1], start[2], dest[1], dest[2]} : IsNaN(c) THEN NaN
    ELSE HaversineCentiNm(start, dest)

\* Math.round(d) and Math.round(d * 0.5) of a distance d given in hundredths:
\* the nearest integer, halves rounded up; NaN stays NaN.
RoundDistance(d) == IF IsNaN(d) THEN NaN ELSE (d + 50) \div 100
RoundHalfDistance(d) == IF IsNaN(d) THEN NaN ELSE (d + 100) \div 200

\* A route builder whose result depends on how many routes were computed
\* before: the distance drifts with the run number.
BuildRouteRunDependent(c, rid) ==
    LET start == <<parseFloat(c.startLat), parseFloat(c.startLon)>>
        dest == <<parseFloat(c.destLat), parseFloat(c.destLon)>>
        d == RoundDistance(calculateDistance(start, dest))
    IN  [path |-> generateCurvedPath(start, dest, NumPoints),
         distance |-> IF IsNaN(d) THEN NaN ELSE d + rid,
         eta |-> "48 hrs",
         fuel |-> RoundHalfDistance(calculateDistance(start, dest)),
         optimization |-> [fuel |-> c.fuelPriority, time |-> c.timePriority,
                           safety |-> c.safetyPriority],
         quantumEnhanced |-> c.isQuantumMode,
         rid |-> rid]

\* The route object generateRoute builds from the values its closure captured
\* when the button was clicked; rid stands for the identity of the new object.
BuildRoute(c, rid) ==
    LET start == <<parseFloat(c.startLat), parseFloat(c.startLon)>>
        dest == <<parseFloat(c.destLat), parseFloat(c.destLon)>>
    IN  [path |-> generateCurvedPath(start, dest, NumPoints),
         distance |-> RoundDistance(calculateDistance(start, dest)),
         eta |-> "48 hrs",
         fuel |-> RoundHalfDistance(calculateDistance(start, dest)),
         optimization |-> [fuel |-> c.fuelPriority, time |-> c.timePriority,
                           safety |-> c.safetyPriority],
         quantumEnhanced |-> c.isQuantumMode,
         rid |-> rid]

\* ------------------------------------------------------------------- state
VARIABLES
    \* RouteControls
    loading, startLat, startLon, destLat, destLon,
    fuelPriority, timePriority, safetyPriority,
    \* generateRoute calls suspended at their await, oldest first: each holds
    \* the values its closure captured when the button was clicked
    inFlight,
    \* Index
    route, telemetry, isQuantumMode,
    \* TelemetryPanel, and the interval timers of the page that are active
    isSimulating, intervalId, timers, timersCreated,
    \* history: every sample handed to onTelemetryUpdate, in arrival order, and
    \* the number of "High wave alert!" warnings raised
    arrivals, highWaveAlerts,
    \* MapView: the layers on the Leaflet map, the two layer refs, the voyage
    \* progress, the animate loops whose timeout is pending, the dependencies
    \* the two route effects last ran with, and the number of "Route generated
    \* successfully!" notifications raised
    mapLayers, layersCreated, routeLayerRef, shipMarkerRef, animationProgress,
    animations, routeEffectDeps, animateEffectDeps, routeToasts,
    \* AuditLog
    entries,
    \* the last notification shown (sonner toast)
    toast,
    \* history: the form edits made so far, and every completed generateRoute
    \* call as its captured request and the route it delivered
    edits, computed,
    \* the last call of generateCurvedPath made on its own: its arguments and
    \* its result (empty before the first call)
    curve

formVars == <<startLat, startLon, destLat, destLon,
              fuelPriority, timePriority, safetyPriority, edits>>
routeVars == <<loading, inFlight, route, computed>>
telemetryVars == <<telemetry, isSimulating, intervalId, timers, timersCreated,
                   arrivals, highWaveAlerts>>
mapVars == <<mapLayers, layersCreated, routeLayerRef, shipMarkerRef,
             animationProgress, animations, routeEffectDeps,
             animateEffectDeps, routeToasts>>
vars == <<formVars, routeVars, telemetryVars, mapVars, isQuantumMode, entries,
          toast, curve>>

\* useState(null) of a route and of an interval id.
NoRoute == <<>>
NoInterval == 0
\* useRef(null) of a map layer.
NoLayer == 0

NoToast == [kind |-> "none", title |-> ""]
ToastFailed == [kind |-> "error", title |-> "Failed to generate route"]
ToastStarted == [kind |-> "success", title |-> "Telemetry simulation started"]
ToastStopped == [kind |-> "info", title |-> "Telemetry simulation stopped"]
ToastHighWave == [kind |-> "warning", title |-> "High wave alert!"]
ToastVerified == [kind |-> "success", title |-> "Audit chain verified"]
ToastRouteGenerated ==
    [kind |-> "success", title |-> "Route generated successfully!"]

\* The two entries AuditLog is constructed with.
InitialEntries ==
    <<[id |-> 1, action |-> "Route Computed", hash |-> "0x7a9d...",
       verified |-> TRUE],
      [id |-> 2, action |-> "Telemetry Updated", hash |-> "0x4f2e...",
       verified |-> TRUE]>>

Init ==
    /\ loading = FALSE
    /\ startLat = DefaultStartLat
    /\ startLon = DefaultStartLon
    /\ destLat = DefaultDestLat
    /\ destLon = DefaultDestLon
    /\ fuelPriority = 50
    /\ timePriority = 30
    /\ safetyPriority = 20
    /\ inFlight = <<>>
    /\ route = NoRoute
    /\ telemetry = <<>>
    /\ isQuantumMode = FALSE
    /\ isSimulating = FALSE
    /\ intervalId = NoInterval
    /\ timers = {}
    /\ timersCreated = 0
    /\ entries = InitialEntries
    /\ toast = NoToast
    /\ edits = 0
    /\ computed = <<>>
    /\ arrivals = <<>>
    /\ highWaveAlerts = 0
    /\ mapLayers = {}
    /\ layersCreated = 0
    /\ routeLayerRef = NoLayer
    /\ shipMarkerRef = NoLayer
    /\ animationProgress = 0
    /\ animations = {}
    /\ routeEffectDeps = <<0, FALSE>>
    /\ animateEffectDeps = 0
    /\ routeToasts = 0
    /\ curve = <<>>

\* ----------------------------------------------------------- RouteControls
\* onChange of the four coordinate inputs.
SetStartLat(text) ==
    /\ edits < MaxEdits /\ text # startLat
    /\ startLat' = text /\ edits' = edits + 1
    /\ UNCHANGED <<startLon, destLat, destLon, fuelPriority, timePriority,
                   safetyPriority, routeVars, telemetryVars, isQuantumMode,
                   entries, toast>>
    /\ UNCHANGED <<mapVars, curve>>

SetStartLon(text) ==
    /\ edits < MaxEdits /\ text # startLon
    /\ startLon' = text /\ edits' = edits + 1
    /\ UNCHANGED <<startLat, destLat, destLon, fuelPriority, timePriority,
                   safetyPriority, routeVars, telemetryVars, isQuantumMode,
                   entries, toast>>
    /\ UNCHANGED <<mapVars, curve>>

SetDestLat(text) ==
    /\ edits < MaxEdits /\ text # destLat
    /\ destLat' = text /\ edits' = edits + 1
    /\ UNCHANGED <<startLat, startLon, destLon, fuelPriority, timePriority,
                   safetyPriority, routeVars, telemetryVars, isQuantumMode,
                   entries, toast>>
    /\ UNCHANGED <<mapVars, curve>>

SetDestLon(text) ==
    /\ edits < MaxEdits /\ text # destLon
    /\ destLon' = text /\ edits' = edits + 1
    /\ UNCHANGED <<startLat, startLon, destLat, fuelPriority, timePriority,
                   safetyPriority, routeVars, telemetryVars, isQuantumMode,
                   entries, toast>>
    /\ UNCHANGED <<mapVars, curve>>

\* onValueChange of the three priority sliders.
SetFuelPriority(v) ==
    /\ edits < MaxEdits /\ v # fuelPriority
    /\ fuelPriority' = v /\ edits' = edits + 1
    /\ UNCHANGED <<startLat, startLon, destLat, destLon, timePriority,
                   safetyPriority, routeVars, telemetryVars, isQuantumMode,
                   entries, toast>>
    /\ UNCHANGED <<mapVars, curve>>

SetTimePriority(v) ==
    /\ edits < MaxEdits /\ v # timePriority
    /\ timePriority' = v /\ edits' = edits + 1
    /\ UNCHANGED <<startLat, startLon, destLat, destLon, fuelPriority,
                   safetyPriority, routeVars, telemetryVars, isQuantumMode,
                   entries, toast>>
    /\ UNCHANGED <<mapVars, curve>>

SetSafetyPriority(v) ==
    /\ edits < MaxEdits /\ v # safetyPriority
    /\ safetyPriority' = v /\ edits' = edits + 1
    /\ UNCHANGED <<startLat, startLon, destLat, destLon, fuelPriority,
                   timePriority, routeVars, telemetryVars, isQuantumMode,
                   entries, toast>>
    /\ UNCHANGED <<mapVars, curve>>

\* A Generate Route button that is never disabled.
GenerateButtonNeverDisabled == TRUE

\* The Generate Route button: disabled={loading}.
GenerateButtonEnabled == ~loading

\* What the generateRoute closure of the current render holds.
CapturedInputs ==
    [startLat |-> startLat, startLon |-> startLon,
     destLat |-> destLat, destLon |-> destLon,
     fuelPriority |-> fuelPriority, timePriority |-> timePriority,
     safetyPriority |-> safetyPriority, isQuantumMode |-> isQuantumMode]

\* generateRoute up to its await: a click on the enabled button sets loading
\* and suspends on the 2000 ms timeout.
generateRouteStart ==
    /\ GenerateButtonEnabled
    /\ Len(computed) + Len(inFlight) < MaxRoutes
    /\ loading' = TRUE
    /\ inFlight' = Append(inFlight, CapturedInputs)
    /\ UNCHANGED <<formVars, route, computed, telemetryVars, isQuantumMode,
                   entries, toast>>
    /\ UNCHANGED <<mapVars, curve>>

\* handleRouteGenerated of Index.
handleRouteGenerated(newRoute) == route' = <<newRoute>>

\* generateRoute after its await: the oldest timeout fires, the route is built
\* from the captured values and handed to onRouteGenerated, and the finally
\* block clears loading.
generateRouteResume ==
    /\ inFlight # <<>>
    /\ LET c == Head(inFlight)
           newRoute == BuildRoute(c, Len(computed) + 1)
       IN  /\ handleRouteGenerated(newRoute)
           /\ computed' = Append(computed, [request |-> c, route |-> newRoute])
    /\ inFlight' = Tail(inFlight)
    /\ loading' = FALSE
    /\ UNCHANGED <<formVars, telemetryVars, isQuantumMode, entries, toast>>
    /\ UNCHANGED <<mapVars, curve>>

\* generateRoute after its await with the setLoading(false) of the finally
\* block placed at the end of the try block instead.
generateRouteResumeThrowsWithoutFinally ==
    /\ inFlight # <<>>
    /\ toast' = ToastFailed
    /\ inFlight' = Tail(inFlight)
    /\ UNCHANGED <<formVars, loading, route, computed, telemetryVars,
                   isQuantumMode, entries>>
    /\ UNCHANGED <<mapVars, curve>>

\* generateRoute after its await when the onRouteGenerated it was given throws:
\* the catch block shows the error, no route is delivered, and the finally
\* block clears loading.  (handleRouteGenerated of Index does not throw;
\* RouteControls takes the callback as a prop.)
generateRouteResumeThrows ==
    /\ inFlight # <<>>
    /\ toast' = ToastFailed
    /\ inFlight' = Tail(inFlight)
    /\ loading' = FALSE
    /\ UNCHANGED <<formVars, route, computed, telemetryVars, isQuantumMode,
                   entries>>
    /\ UNCHANGED <<mapVars, curve>>

\* The segment counts generateCurvedPath is called with on its own, and the
\* start and destination pairs the form texts parse to.
PointCounts == {1, 2, 4, 5, 10, 20}
StartPairs ==
    {<<parseFloat(a), parseFloat(b)>> : a \in StartLatTexts, b \in StartLonTexts}
DestPairs ==
    {<<parseFloat(a), parseFloat(b)>> : a \in DestLatTexts, b \in DestLonTexts}

\* One call generateCurvedPath(start, dest, points).
generateCurvedPathCall(start, dest, points) ==
    /\ curve' = <<[start |-> start, dest |-> dest, points |-> points,
                   path |-> generateCurvedPath(start, dest, points)]>>
    /\ UNCHANGED <<formVars, routeVars, telemetryVars, mapVars, isQuantumMode,
                   entries, toast>>

\* ------------------------------------------------------------------ Header
onQuantumToggle ==
    /\ isQuantumMode' = ~isQuantumMode
    /\ UNCHANGED <<formVars, routeVars, telemetryVars, entries, toast>>
    /\ UNCHANGED <<mapVars, curve>>

\* ---------------------------------------------------------- TelemetryPanel
\* waveHeight texts, as (Math.random() * 5 + 1).toFixed(2) produces them.
WaveTexts == {<<"4", ".", "5", "0">>, <<"5", ".", "2", "0">>}
\* The same, with the smallest text above 4.50.
ThresholdWaveTexts == WaveTexts \cup {<<"4", ".", "5", "1">>}

\* The readings new Date() may give: the wall clock, which is not monotonic.
Clock == 1..MaxClock

\* An alert test that counts a wave height of exactly 4.5 as high.
isHighWaveInclusive(sample) ==
    parseFloat(sample.waveHeight) >= (45 * Scale) \div 10

\* parseFloat(data.waveHeight) > 4.5
isHighWave(sample) == parseFloat(sample.waveHeight) > (45 * Scale) \div 10

\* The telemetry list: parseFloat(data.waveHeight) > 4.5 shows the "High wave
\* warning" row of a sample.
showsHighWaveWarning(sample) ==
    parseFloat(sample.waveHeight) > (45 * Scale) \div 10

\* The last n elements of s: s.slice(-n).
SliceLast(s, n) ==
    IF Len(s) <= n THEN s ELSE SubSeq(s, Len(s) - n + 1, Len(s))

\* A handleTelemetryUpdate that keeps every sample: prev => [...prev, data].
handleTelemetryUpdateKeepingAll(data) == telemetry' = Append(telemetry, data)

\* handleTelemetryUpdate of Index: prev => [...prev.slice(-50), data].
handleTelemetryUpdate(data) ==
    telemetry' = Append(SliceLast(telemetry, KeepSamples), data)

\* startSimulation: reachable from the button only while isSimulating is false.
startSimulation ==
    /\ ~isSimulating
    /\ timersCreated < MaxTimers
    /\ isSimulating' = TRUE
    /\ timersCreated' = timersCreated + 1
    /\ timers' = timers \cup {timersCreated + 1}
    /\ intervalId' = timersCreated + 1
    /\ toast' = ToastStarted
    /\ UNCHANGED <<formVars, routeVars, telemetry, arrivals, highWaveAlerts,
                   isQuantumMode, entries>>
    /\ UNCHANGED <<mapVars, curve>>

\* A stopSimulation that does not clear the interval.
stopSimulationKeepingTimer ==
    /\ isSimulating
    /\ isSimulating' = FALSE
    /\ toast' = ToastStopped
    /\ UNCHANGED <<formVars, routeVars, telemetry, arrivals, highWaveAlerts,
                   timers, intervalId, timersCreated, isQuantumMode, entries>>
    /\ UNCHANGED <<mapVars, curve>>

\* stopSimulation: reachable from the button only while isSimulating is true.
stopSimulation ==
    /\ isSimulating
    /\ IF intervalId # NoInterval
       THEN timers' = timers \ {intervalId} /\ intervalId' = NoInterval
       ELSE UNCHANGED <<timers, intervalId>>
    /\ isSimulating' = FALSE
    /\ toast' = ToastStopped
    /\ UNCHANGED <<formVars, routeVars, telemetry, arrivals, highWaveAlerts,
                   timersCreated, isQuantumMode, entries>>
    /\ UNCHANGED <<mapVars, curve>>

\* The setInterval callback of an active timer: one sample is emitted, and a
\* warning is shown when its wave height is above 4.5.
intervalCallback(id, now, wave) ==
    /\ id \in timers
    /\ LET data == [timestamp |-> now, waveHeight |-> wave]
       IN  /\ handleTelemetryUpdate(data)
           /\ arrivals' = Append(arrivals, data)
           /\ IF isHighWave(data)
              THEN toast' = ToastHighWave
                   /\ highWaveAlerts' = highWaveAlerts + 1
              ELSE UNCHANGED <<toast, highWaveAlerts>>
    /\ UNCHANGED <<formVars, routeVars, isSimulating, intervalId, timers,
                   timersCreated, isQuantumMode, entries>>
    /\ UNCHANGED <<mapVars, curve>>

\* ---------------------------------------------------------------- AuditLog
\* A Verify Chain button that rewrites the verified flag of every entry.
verifyChainRewritingEntries ==
    /\ toast' = ToastVerified
    /\ entries' = [k \in 1..Len(entries) |->
                      [entries[k] EXCEPT !.verified = FALSE]]
    /\ UNCHANGED <<formVars, routeVars, telemetryVars, isQuantumMode>>
    /\ UNCHANGED <<mapVars, curve>>

\* verifyChain: the Verify Chain button.
verifyChain ==
    /\ toast' = ToastVerified
    /\ UNCHANGED <<formVars, routeVars, telemetryVars, isQuantumMode, entries>>
    /\ UNCHANGED <<mapVars, curve>>

\* ----------------------------------------------------------------- MapView
\* The identity of the route object MapView was last rendered with (0: null).
CurrentRid == IF route = NoRoute THEN 0 ELSE route[1].rid

\* A commit changed a dependency of an effect that has not run since.
RouteEffectPending == routeEffectDeps # <<CurrentRid, isQuantumMode>>
AnimateEffectPending == animateEffectDeps # CurrentRid
EffectsPending == RouteEffectPending \/ AnimateEffectPending

\* map.removeLayer(ref.current) when the ref holds a layer.
RemoveLayer(layers, ref) ==
    IF ref # NoLayer THEN {l \in layers : l.id # ref} ELSE layers

\* The "Update route" effect, run after a commit that changed route or
\* isQuantumMode: without a route it returns at once; otherwise it removes the
\* polyline routeLayerRef holds, adds the new polyline and keeps it in the
\* ref, adds a Start Port and a Destination Port marker (kept in no ref), and
\* shows the notification.
updateRouteEffect ==
    /\ RouteEffectPending
    /\ routeEffectDeps' = <<CurrentRid, isQuantumMode>>
    /\ IF route = NoRoute
       THEN UNCHANGED <<mapLayers, layersCreated, routeLayerRef, routeToasts,
                        toast>>
       ELSE LET r == route[1]
                polyline == [id |-> layersCreated + 1, kind |-> "polyline",
                             rid |-> r.rid, latlngs |-> r.path,
                             color |-> IF isQuantumMode THEN "#00ffff"
                                       ELSE "#00bfff"]
                startPort == [id |-> layersCreated + 2, kind |-> "Start Port",
                              rid |-> r.rid, latlngs |-> <<r.path[1]>>,
                              color |-> ""]
                destPort == [id |-> layersCreated + 3,
                             kind |-> "Destination Port", rid |-> r.rid,
                             latlngs |-> <<r.path[Len(r.path)]>>,
                             color |-> ""]
            IN  /\ mapLayers' = RemoveLayer(mapLayers, routeLayerRef)
                                   \cup {polyline}
                                   \cup (IF Len(r.path) > 0
                                         THEN {startPort, destPort} ELSE {})
                /\ routeLayerRef' = polyline.id
                /\ layersCreated' = layersCreated + 3
                /\ toast' = ToastRouteGenerated
                /\ routeToasts' = routeToasts + 1
    /\ UNCHANGED <<formVars, routeVars, telemetryVars, isQuantumMode, entries,
                   shipMarkerRef, animationProgress, animations,
                   animateEffectDeps, curve>>

\* The "Animate ship" effect, run after a commit that changed route, once the
\* "Update route" effect of the same commit has run: for a route of at least
\* two waypoints it removes the marker shipMarkerRef holds, puts a new ship
\* marker on the first waypoint, keeps it in the ref, and sets the timeout of
\* the first animate call (frame = 0).  It returns no cleanup function.
animateShipEffect ==
    /\ ~RouteEffectPending
    /\ AnimateEffectPending
    /\ animateEffectDeps' = CurrentRid
    /\ IF route = NoRoute \/ Len(route[1].path) < 2
       THEN UNCHANGED <<mapLayers, layersCreated, shipMarkerRef, animations>>
       ELSE LET r == route[1]
                marker == [id |-> layersCreated + 1, kind |-> "ship",
                           rid |-> r.rid, latlngs |-> <<r.path[1]>>,
                           color |-> ""]
            IN  /\ mapLayers' = RemoveLayer(mapLayers, shipMarkerRef)
                                   \cup {marker}
                /\ shipMarkerRef' = marker.id
                /\ layersCreated' = layersCreated + 1
                /\ animations' = animations
                                    \cup {[rid |-> r.rid, frame |-> 0]}
    /\ UNCHANGED <<formVars, routeVars, telemetryVars, isQuantumMode, entries,
                   toast, routeLayerRef, animationProgress, routeEffectDeps,
                   routeToasts, curve>>

\* frame / (totalFrames - 1), in thousandths.
Progress(frame, totalFrames) == (frame * 1000) \div (totalFrames - 1)

\* marker.setLatLng(latlng) on the marker the ref holds, if it holds one.
SetLatLng(layers, ref, latlng) ==
    {IF l.id = ref THEN [l EXCEPT !.latlngs = <<latlng>>] ELSE l : l \in layers}

\* One call of animate from a timeout: loop is the closure of the effect run
\* that started it (its route and its frame).  Before the last waypoint it
\* advances the frame, sets the progress, moves the marker shipMarkerRef holds
\* at the time of the call to its own route's waypoint, and sets the next
\* timeout; at the last waypoint it ends.
animate(loop) ==
    /\ loop \in animations
    /\ LET path == computed[loop.rid].route.path
           totalFrames == Len(path)
           frame == loop.frame + 1
       IN  IF loop.frame < totalFrames - 1
           THEN /\ animationProgress' = Progress(frame, totalFrames)
                /\ mapLayers' = SetLatLng(mapLayers, shipMarkerRef,
                                          path[frame + 1])
                /\ animations' = (animations \ {loop})
                                    \cup {[loop EXCEPT !.frame = frame]}
           ELSE /\ animations' = animations \ {loop}
                /\ UNCHANGED <<animationProgress, mapLayers>>
    /\ UNCHANGED <<formVars, routeVars, telemetryVars, isQuantumMode, entries,
                   toast, layersCreated, routeLayerRef, shipMarkerRef,
                   routeEffectDeps, animateEffectDeps, routeToasts, curve>>

\* ----------------------------------------------------------- specification
NextCoordinates ==
    \/ \E text \in StartLatTexts : SetStartLat(text)
    \/ \E text \in StartLonTexts : SetStartLon(text)
    \/ \E text \in DestLatTexts : SetDestLat(text)
    \/ \E text \in DestLonTexts : SetDestLon(text)

NextPriorities ==
    \/ \E v \in FuelValues : SetFuelPriority(v)
    \/ \E v \in TimeValues : SetTimePriority(v)
    \/ \E v \in SafetyValues : SetSafetyPriority(v)

NextGenerate ==
    \/ generateRouteStart
    \/ generateRouteResume

NextTelemetry ==
    \/ startSimulation
    \/ stopSimulation
    \/ /\ Len(arrivals) < MaxTicks
       /\ \E id \in timers, now \in Clock, wave \in WaveTexts :
              intervalCallback(id, now, wave)

\* The effects of MapView and the timeouts of its animation.
NextMapView ==
    \/ updateRouteEffect
    \/ animateShipEffect
    \/ \E loop \in animations : animate(loop)

\* The whole page.
Next ==
    \/ NextCoordinates
    \/ NextPriorities
    \/ NextGenerate
    \/ onQuantumToggle
    \/ NextTelemetry
    \/ verifyChain
    \/ NextMapView

Spec == Init /\ [][Next]_vars

\* Route planning between ports: the coordinate inputs, the quantum switch and
\* the Generate Route button, with the priorities left at their initial values.
SpecRoute ==
    Init /\ [][NextCoordinates \/ onQuantumToggle \/ NextGenerate]_vars

\* Route planning under different priorities: the three sliders and the
\* Generate Route button, with the ports left at their initial values.
SpecWeights == Init /\ [][NextPriorities \/ NextGenerate]_vars

\* A voyage with the form left at its initial values: route generation, the
\* telemetry simulation and the audit log.
SpecVoyage == Init /\ [][NextGenerate \/ NextTelemetry \/ verifyChain]_vars

\* The oldest pending 2000 ms timeout of generateRoute elapses and the call
\* continues after its await, whatever the outcome of the continuation.
generateRouteTimeout == inFlight # <<>> /\ inFlight' = Tail(inFlight)

\* Route generation with a route callback that may throw, next to the other
\* buttons of the page.  A timeout that was set does elapse, and the event loop
\* then runs the continuation of the call.
SpecCompletion ==
    /\ Init
    /\ [][\/ generateRouteStart
           \/ generateRouteResume
           \/ generateRouteResumeThrows
           \/ onQuantumToggle
           \/ startSimulation
           \/ stopSimulation
           \/ verifyChain]_vars
    /\ WF_inFlight(generateRouteTimeout)

\* The telemetry simulation on its own, with wave heights at and just above
\* the alert threshold.
SpecTelemetry ==
    Init /\ [][\/ startSimulation
               \/ stopSimulation
               \/ /\ Len(arrivals) < MaxTicks
                  /\ \E id \in timers, now \in Clock,
                        wave \in ThresholdWaveTexts :
                        intervalCallback(id, now, wave)]_vars

\* A calm sea: (Math.random() * 5 + 1).toFixed(2) giving 2.30 at every tick.
CalmWave == <<"2", ".", "3", "0">>

\* A long simulation run on a calm sea under a steadily advancing clock: sample
\* number k carries the timestamp k.
SpecLongRun ==
    Init /\ [][\/ startSimulation
               \/ stopSimulation
               \/ /\ Len(arrivals) < MaxArrivals
                  /\ \E id \in timers :
                         intervalCallback(id, Len(arrivals) + 1,
                                          CalmWave)]_vars

\* generateCurvedPath on its own, over segment counts and port pairs, next to
\* the route generation of the page that calls it with 20 segments.
SpecCurve ==
    Init /\ [][\/ NextGenerate
               \/ \E start \in StartPairs, dest \in DestPairs,
                     points \in PointCounts :
                     generateCurvedPathCall(start, dest, points)]_vars

\* React runs the effects of a commit before the page handles its next event:
\* the handlers and timeouts of the page as they run next to the map view, each
\* only when no effect is pending.
clickGenerateRoute == ~EffectsPending /\ generateRouteStart
deliverRoute == ~EffectsPending /\ generateRouteResume
toggleQuantumMode ==
    ~EffectsPending /\ layersCreated < MaxLayers /\ onQuantumToggle
animateTimeout(loop) == ~EffectsPending /\ animate(loop)

\* The map view under route generation and quantum-mode toggles, with the form
\* left at its initial values.
SpecMap ==
    Init /\ [][\/ updateRouteEffect
               \/ animateShipEffect
               \/ clickGenerateRoute
               \/ deliverRoute
               \/ toggleQuantumMode
               \/ \E loop \in animations : animateTimeout(loop)]_vars

\* An entry's stored field changed from outside the component: the tampering
\* the audit chain is to detect.  Not a step of the page itself.
TamperEntry(k, field) ==
    /\ k \in 1..Len(entries)
    /\ entries[k] = InitialEntries[k]
    /\ entries' = IF field = "hash"
                  THEN [entries EXCEPT ![k].hash = "0xdead..."]
                  ELSE [entries EXCEPT ![k].action = "Forged"]
    /\ UNCHANGED <<formVars, routeVars, telemetryVars, isQuantumMode, toast>>
    /\ UNCHANGED <<mapVars, curve>>

\* The voyage, with the audit log's stored entries open to tampering.
SpecTamper ==
    Init /\ [][\/ NextGenerate
               \/ NextTelemetry
               \/ verifyChain
               \/ \E k \in 1..2, field \in {"hash", "action"} :
                     TamperEntry(k, field)]_vars

\* ------------------------------------------------------------------ claims
Last(s) == s[Len(s)]

\* The start and the destination a request asks for, as parseFloat reads them.
RequestedStart(c) == <<parseFloat(c.startLat), parseFloat(c.startLon)>>
RequestedDest(c) == <<parseFloat(c.destLat), parseFloat(c.destLon)>>

\* C1: for every completed route computation, the first waypoint of the
\* delivered path is the requested start and the last waypoint is the requested
\* destination, in latitude and in longitude.
C1_EndpointsExact ==
    \A i \in 1..Len(computed) :
        /\ computed[i].route.path[1] = RequestedStart(computed[i].request)
        /\ Last(computed[i].route.path) = RequestedDest(computed[i].request)

\* The entries whose stored fields differ from what the page wrote.
TamperedEntries == {k \in 1..Len(entries) : entries[k] # InitialEntries[k]}

\* C2: a run of verifyChain reports success exactly when no entry of the chain
\* has been tampered with; on a chain with a tampered entry it never reports
\* "Audit chain verified".
C2_VerifyDetectsTampering ==
    [][verifyChain => (toast' = ToastVerified <=> TamperedEntries = {})]_vars

\* C3: at most one route computation is in flight at any time, and one is in
\* flight only while loading is set (so the disabled button admits no second).
C3_SingleFlight ==
    /\ Len(inFlight) <= 1
    /\ inFlight # <<>> => loading

\* A computation is in flight and the model's bound would still admit another
\* request: only the disabled button keeps a second run from starting.
C3_Witness ==
    /\ loading
    /\ Len(inFlight) = 1
    /\ Len(computed) + Len(inFlight) < MaxRoutes

\* C4: the recorded telemetry samples are strictly increasing in timestamp (a
\* sample no newer than the last recorded one is never appended).
C4_TimestampsIncreasing ==
    \A i \in 1..Len(telemetry) : \A j \in 1..Len(telemetry) :
        i < j => telemetry[i].timestamp < telemetry[j].timestamp

\* The number of audit entries with the given action.
ActionCount(log, action) ==
    Cardinality({k \in 1..Len(log) : log[k].action = action})

\* C5: a sample above the 4.5 m threshold pushed while a route is Ready (a route
\* is present and no computation is running) appends exactly one Replan
\* Triggered audit entry and starts the re-optimization of the route.
C5_BreachTriggersReplan ==
    [][(/\ telemetry' # telemetry
        /\ isHighWave(Last(telemetry'))
        /\ route # NoRoute
        /\ ~loading)
       => (/\ ActionCount(entries', "Replan Triggered")
                = ActionCount(entries, "Replan Triggered") + 1
           /\ loading')]_vars

\* C6: every route delivered by generateRoute has appended one Route Computed
\* entry to the audit chain.
C6_RouteComputedLogged ==
    ActionCount(entries, "Route Computed")
        = ActionCount(InitialEntries, "Route Computed") + Len(computed)

\* What determinism compares of a route: path, distance, fuel and eta.
RouteOutput(r) ==
    [path |-> r.path, distance |-> r.distance, fuel |-> r.fuel, eta |-> r.eta]

ValidWaypoint(p) ==
    /\ ~IsNaN(p[1]) /\ ~IsNaN(p[2])
    /\ p[1] >= 0 - 90 * Scale /\ p[1] <= 90 * Scale
    /\ p[2] >= 0 - 180 * Scale /\ p[2] <= 180 * Scale

\* C8: no route is delivered for a request with a NaN or out-of-range
\* coordinate: every completed computation had a valid start and destination.
C8_InvalidInputRejected ==
    \A i \in 1..Len(computed) :
        /\ ValidWaypoint(RequestedStart(computed[i].request))
        /\ ValidWaypoint(RequestedDest(computed[i].request))

WeightSum(w) == w.fuel + w.time + w.safety

\* C9: no route is produced for a zero-sum weight triple.
C9_ZeroWeightsRejected ==
    \A i \in 1..Len(computed) :
        WeightSum(computed[i].route.optimization) # 0

\* C10: the weights carried by a route computed from a valid (not all zero)
\* triple are normalized: they sum to 1.0, read as fractions or as the
\* percentages the sliders show.
C10_WeightsNormalized ==
    \A i \in 1..Len(computed) :
        WeightSum(computed[i].route.optimization) # 0
            => WeightSum(computed[i].route.optimization) \in {1, 100}

\* s is an initial segment of t.
IsPrefix(s, t) == Len(s) <= Len(t) /\ SubSeq(t, 1, Len(s)) = s

\* C11: the audit log is append-only: in every step of the page (route
\* generation, telemetry updates, Verify Chain clicks) the entries before the
\* step are an initial segment of the entries after it, so no entry is removed,
\* changed or reordered.
C11_AppendOnly == [][IsPrefix(entries, entries')]_vars

\* A route was delivered, a telemetry sample recorded and Verify Chain clicked,
\* and the two entries the log was constructed with are still in place.
C11_Witness ==
    /\ Len(computed) >= 1
    /\ Len(arrivals) >= 1
    /\ toast = ToastVerified
    /\ IsPrefix(InitialEntries, entries)

\* C12: no route computation blocks: whenever loading is set by generateRoute,
\* loading is cleared again later, when the route is delivered and when the
\* delivery throws.
C12_LoadingEnds == loading ~> ~loading

\* Both outcomes have happened: a route was delivered, a later delivery threw
\* (the failure is on show), and loading is clear again.
C12_Witness ==
    /\ ~loading
    /\ inFlight = <<>>
    /\ Len(computed) >= 1
    /\ toast = ToastFailed

\* The straight-line part of waypoint k of a path of the given segment count:
\* the waypoint less the sine bulge in latitude and the cosine offset in
\* longitude that the curve adds at t = (k - 1) / points.
LinePart(path, k, points) ==
    <<IF IsNaN(path[k][1]) THEN NaN
      ELSE path[k][1] - 2 * SinPi(k - 1, points),
      IF IsNaN(path[k][2]) THEN NaN
      ELSE path[k][2] - CosPi(k - 1, points)>>

\* a is no farther from the coordinate from than b is (NaN compares as equal).
NoFarther(from, a, b) ==
    \/ IsNaN(from) \/ IsNaN(a) \/ IsNaN(b)
    \/ (IF a >= from THEN a - from ELSE from - a)
           <= (IF b >= from THEN b - from ELSE from - b)

\* The line part p lies on the port q, in each coordinate that is a number.
LiesOn(p, q) ==
    /\ IsNaN(p[1]) \/ p[1] = q[1]
    /\ IsNaN(p[2]) \/ p[2] = q[2]

\* The waypoints run from the start end to the destination end: the first
\* lies on the start, the last on the destination, and every later waypoint
\* is at least as far along the line from the start as every earlier one.
OrderedStartToDest(path, start, dest, points) ==
    /\ LiesOn(LinePart(path, 1, points), start)
    /\ LiesOn(LinePart(path, Len(path), points), dest)
    /\ \A j \in 1..Len(path) : \A k \in 1..Len(path) :
           j < k => /\ NoFarther(start[1], LinePart(path, j, points)[1],
                                 LinePart(path, k, points)[1])
                    /\ NoFarther(start[2], LinePart(path, j, points)[2],
                                 LinePart(path, k, points)[2])

\* C13: generateCurvedPath(start, dest, n) returns exactly n + 1 waypoints,
\* ordered from the start end (t = 0) to the destination end (t = 1), and every
\* route generateRoute delivered (n = 20) has 21, so at least 2, waypoints in
\* that order.
C13_WaypointCount ==
    /\ \A i \in 1..Len(curve) :
           /\ Len(curve[i].path) = curve[i].points + 1
           /\ OrderedStartToDest(curve[i].path, curve[i].start, curve[i].dest,
                                 curve[i].points)
    /\ \A i \in 1..Len(computed) :
           /\ Len(computed[i].route.path) = NumPoints + 1
           /\ Len(computed[i].route.path) >= 2
           /\ OrderedStartToDest(computed[i].route.path,
                                 RequestedStart(computed[i].request),
                                 RequestedDest(computed[i].request), NumPoints)

\* generateCurvedPath was called with one segment and gave two waypoints, and
\* a route of 21 waypoints was delivered.
C13_Witness ==
    /\ curve # <<>>
    /\ curve[1].points = 1
    /\ Len(curve[1].path) = 2
    /\ curve[1].start # curve[1].dest
    /\ Len(computed) >= 1
    /\ Len(computed[1].route.path) = NumPoints + 1

\* The wave height of a sample as a number, and the 4.5 m threshold.
WaveHeightOf(sample) == parseFloat(sample.waveHeight)
WaveThreshold == (45 * Scale) \div 10

\* C14: a sample is a breach exactly when its wave height is strictly above
\* 4.5: when a sample is emitted, the "High wave alert!" is raised for it if and
\* only if its wave height is above 4.5, the telemetry list shows the "High
\* wave warning" for it under the same condition, and the two agree.
C14_BreachIffAbove ==
    [][arrivals' # arrivals
       => LET sample == Last(arrivals')
              alerted == /\ highWaveAlerts' = highWaveAlerts + 1
                         /\ toast' = ToastHighWave
              silent == UNCHANGED <<highWaveAlerts, toast>>
          IN  /\ Last(telemetry') = sample
              /\ alerted <=> WaveHeightOf(sample) > WaveThreshold
              /\ silent <=> ~(WaveHeightOf(sample) > WaveThreshold)
              /\ showsHighWaveWarning(sample)
                    <=> WaveHeightOf(sample) > WaveThreshold
              /\ showsHighWaveWarning(sample) <=> alerted]_vars

\* A sample of exactly 4.50 and a sample of 4.51 were emitted; one alert was
\* raised, and the list shows the warning for the second sample only.
C14_Witness ==
    /\ Len(telemetry) = 2
    /\ telemetry[1].waveHeight = <<"4", ".", "5", "0">>
    /\ telemetry[2].waveHeight = <<"4", ".", "5", "1">>
    /\ highWaveAlerts = 1
    /\ ~showsHighWaveWarning(telemetry[1])
    /\ showsHighWaveWarning(telemetry[2])

\* s is a final segment of t.
IsSuffix(s, t) ==
    Len(s) <= Len(t) /\ SubSeq(t, Len(t) - Len(s) + 1, Len(t)) = s

\* C15: the retained telemetry buffer holds at most 51 samples, and it is the
\* most recent samples in arrival order: a final segment of the sequence of all
\* samples that arrived, ending with the latest, and as long as the cap allows.
C15_BufferBounded ==
    /\ Len(telemetry) <= KeepSamples + 1
    /\ IsSuffix(telemetry, arrivals)
    /\ Len(telemetry) = IF Len(arrivals) <= KeepSamples + 1
                        THEN Len(arrivals) ELSE KeepSamples + 1

\* More samples arrived than the buffer retains: the oldest were dropped and
\* the buffer is full.
C15_Witness ==
    /\ Len(arrivals) > KeepSamples + 1
    /\ Len(telemetry) = KeepSamples + 1
    /\ telemetry[1] # arrivals[1]
    /\ Last(telemetry) = Last(arrivals)

\* C16: at most one telemetry interval timer is active at any time, a timer is
\* active exactly when isSimulating is true (and it is the one intervalId
\* holds), and while the simulation is stopped no telemetry sample is emitted.
C16_OneTimer ==
    /\ [](/\ Cardinality(timers) <= 1
          /\ timers # {} <=> isSimulating
          /\ isSimulating => timers = {intervalId})
    /\ [][~isSimulating => arrivals' = arrivals /\ telemetry' = telemetry]_vars

\* The simulation was started, emitted a sample, was stopped and started a
\* second time: the first timer is gone and only the second is active.
C16_Witness ==
    /\ timersCreated = 2
    /\ isSimulating
    /\ timers = {2}
    /\ Len(arrivals) >= 1

\* The waypoints of the route the page currently holds.
CurrentWaypoints ==
    IF route = NoRoute THEN {}
    ELSE {route[1].path[k] : k \in 1..Len(route[1].path)}

\* C17: once a route has superseded another, no animate call of a superseded
\* route's loop changes the voyage progress or moves the ship marker, the
\* marker is only ever on waypoints of the current route, and the progress
\* does not decrease while the route stays the same (other than by the current
\* route's own loop starting at its first frame).
C17_NoStaleAnimation ==
    [][/\ \A loop \in animations :
             (loop.rid # CurrentRid /\ loop \notin animations')
                 => UNCHANGED <<animationProgress, mapLayers>>
       /\ \A l \in mapLayers' :
             (l.kind = "ship" /\ ~EffectsPending')
                 => l.latlngs[1] \in CurrentWaypoints'
       /\ (/\ Len(computed) >= 2
           /\ route' = route
           /\ animationProgress' < animationProgress)
              => [rid |-> CurrentRid, frame |-> 1] \in animations']_vars

\* The layers of the given kind on the map.
LayersOfKind(kind) == {l \in mapLayers : l.kind = kind}

\* C18: the map holds at most one route polyline, one ship marker, one start
\* marker and one destination marker, and once the effects of a commit have
\* run every layer on the map belongs to the current route.
C18_OneLayerPerKind ==
    /\ \A kind \in {"polyline", "ship", "Start Port", "Destination Port"} :
           Cardinality(LayersOfKind(kind)) <= 1
    /\ ~EffectsPending => \A l \in mapLayers : l.rid = CurrentRid

\* C19: the "Route generated successfully!" notification is shown exactly once
\* per route generateRoute delivered: never more often than routes were
\* delivered (so not on a quantum-mode toggle), and as often once the effects
\* of a commit have run.
C19_OncePerRoute ==
    /\ routeToasts <= Len(computed)
    /\ ~EffectsPending => routeToasts = Len(computed)

============================================================================
